---- MODULE Spec2Model ----
(***************************************************************************)
(* TensorBuffers: the container writer (tensor_buffers_writer.rs), the     *)
(* streaming reader (tensor_buffers_reader.rs) and the facade              *)
(* (tensor_buffers.rs), as state machines over a byte-exact file image.    *)
(*                                                                         *)
(* Numbers.  TLC's integers end at 2^31 - 1, the program's at 2^64 - 1.    *)
(* A usize/u64 value is therefore kept as a record [hi, lo] that stands    *)
(* for hi * 2^32 + lo, with |lo| < 2^31; a u32 is a plain natural.  The    *)
(* cast `x as u32` keeps lo and drops hi, as the machine does.             *)
(*                                                                         *)
(* Bytes.  A file image is a sequence of items: a byte 0..255, or the      *)
(* item BigRun, which stands for 2^32 consecutive zero bytes (the raw      *)
(* bytes of a tensor too large to enumerate).                              *)
(***************************************************************************)
EXTENDS Integers, Sequences, FiniteSets, TLC

(* ------------------------------ bounds --------------------------------- *)
MaxTensors == 2
MaxElems == 2
MaxSinkChunk == 2
MaxBufSlack == 9

(* --------------------------- wide numbers ------------------------------ *)
W(h, l) == [hi |-> h, lo |-> l]
WZero == W(0, 0)
WOfU32(n) == W(0, n)
WAdd(a, b) == W(a.hi + b.hi, a.lo + b.lo)
WAddInt(a, n) == W(a.hi, a.lo + n)
WLt(a, b) == IF a.hi # b.hi THEN a.hi < b.hi ELSE a.lo < b.lo
WLe(a, b) == a = b \/ WLt(a, b)
WNeg(a) == WLt(a, WZero)
\* `x as u32` for a usize/u64 x: the low 32 bits.  A u32 is itself kept wide,
\* as W(0, n) below 2^31 and as W(1, n - 2^32) from 2^31 on, so that
\* `u as u64` and `u as usize` leave the record as it is.
AsU32(w) == IF w.lo >= 0 THEN W(0, w.lo) ELSE W(1, w.lo)

Min(a, b) == IF a <= b THEN a ELSE b

(* ------------------------------ bytes ---------------------------------- *)
BigRun == -1
ItemSize(x) == IF x = BigRun THEN W(1, 0) ELSE W(0, 1)

\* The length in bytes of an image.
ByteLen(items) ==
    LET bigs == { i \in DOMAIN items : items[i] = BigRun }
    IN  W(Cardinality(bigs), Len(items) - Cardinality(bigs))

\* The byte at position p of an image whose BigRun items are at the indices
\* bigs; -2 outside the image.  The item at index j starts at byte
\* W(before(j), j - 1 - before(j)).
ByteAtIn(items, bigs, p) ==
    LET before(j) == Cardinality({ b \in bigs : b < j })
        i == p.hi + p.lo + 1
    IN  IF WNeg(p) THEN -2
        ELSE IF p.lo >= 0 /\ i <= Len(items) /\ i \notin bigs /\ before(i) = p.hi
             THEN items[i]
        ELSE IF \E b \in bigs :
                   LET s == b - 1 - before(b)
                   IN  \/ p.hi = before(b) /\ p.lo >= s
                       \/ p.hi = before(b) + 1 /\ p.lo < s
             THEN 0
        ELSE -2

ByteAt(items, p) == ByteAtIn(items, { i \in DOMAIN items : items[i] = BigRun }, p)

\* The n bytes of the image from position p on.
BytesAt(items, p, n) ==
    LET bigs == { i \in DOMAIN items : items[i] = BigRun }
    IN  [k \in 1..n |-> ByteAtIn(items, bigs, WAddInt(p, k - 1))]

RECURSIVE Flatten(_)
Flatten(ss) == IF ss = <<>> THEN <<>> ELSE Head(ss) \o Flatten(Tail(ss))

Take(s, n) == SubSeq(s, 1, Min(n, Len(s)))

\* u32::to_le_bytes and u32::from_le_bytes, on the wide form of a u32.
U32ToLe(w) ==
    << w.lo % 256, (w.lo \div 256) % 256, (w.lo \div 65536) % 256,
       (w.lo \div 16777216) % 256 >>
U32FromLe(b) ==
    IF b[4] < 128
    THEN W(0, b[1] + 256 * b[2] + 65536 * b[3] + 16777216 * b[4])
    ELSE W(1, b[1] + 256 * b[2] + 65536 * b[3] + 16777216 * (b[4] - 256))

(* --------------------------- element kinds ----------------------------- *)
\* DataType, in declaration order: Int8, Int16, Int32, Int64, UInt8, UInt16,
\* UInt32, UInt64, Float32, Float64.
DataType == 0..9
\* size_of::<T>() for the T of each kind.
SizeOf(k) == << 1, 2, 4, 8, 1, 2, 4, 8, 4, 8 >>[k + 1]

(* ----------------------------- hash_key -------------------------------- *)
\* FNV-1a over 64 bits; a u64 is four 16-bit limbs, lowest first.
RECURSIVE XorBits(_, _, _)
XorBits(a, b, k) ==
    IF k = 0 THEN 0
    ELSE (((a % 2) + (b % 2)) % 2) + 2 * XorBits(a \div 2, b \div 2, k - 1)

FnvBasis == << 8997, 33826, 40164, 52210 >>        \* 0xcbf29ce484222325

\* x * 0x1b3 mod 2^64
FnvMulLow(x) ==
    LET t0 == x[1] * 435
        t1 == x[2] * 435 + t0 \div 65536
        t2 == x[3] * 435 + t1 \div 65536
        t3 == x[4] * 435 + t2 \div 65536
    IN  << t0 % 65536, t1 % 65536, t2 % 65536, t3 % 65536 >>

\* x * 2^40 mod 2^64
FnvShl40(x) ==
    << 0, 0, (x[1] * 256) % 65536, (x[2] * 256 + (x[1] * 256) \div 65536) % 65536 >>

Add64(a, b) ==
    LET t0 == a[1] + b[1]
        t1 == a[2] + b[2] + t0 \div 65536
        t2 == a[3] + b[3] + t1 \div 65536
        t3 == a[4] + b[4] + t2 \div 65536
    IN  << t0 % 65536, t1 % 65536, t2 % 65536, t3 % 65536 >>

\* One byte of FNV-1a: xor into the low byte, then multiply by the prime
\* 0x100000001b3 = 2^40 + 0x1b3.
FnvStep(h, byte) ==
    LET x == << (h[1] \div 256) * 256 + XorBits(h[1] % 256, byte, 8), h[2], h[3], h[4] >>
    IN  Add64(FnvMulLow(x), FnvShl40(x))

RECURSIVE FnvFold(_, _)
FnvFold(h, bytes) ==
    IF bytes = <<>> THEN h ELSE FnvFold(FnvStep(h, Head(bytes)), Tail(bytes))

\* hash_key: str::hash feeds the bytes of the string and then 0xff.
hash_key(name) == FnvFold(FnvBasis, name \o << 255 >>)

\* Ordering of u64 identities (u64::cmp).
IdLt(a, b) ==
    \E k \in 1..4 : a[k] < b[k] /\ \A j \in (k + 1)..4 : a[j] = b[j]

(* ------------------------------ tensors -------------------------------- *)
\* MAGIC_BYTES and VERSION of the constants module.
MAGIC_BYTES == << 84, 66, 85, 70 >>
VERSION == << 48, 46, 49 >>

\* One element of kind k whose lowest byte is v, as it lies in memory.
Elem(k, v) == [j \in 1..SizeOf(k) |-> IF j = 1 THEN v ELSE 0]
\* A run of 2^32 / size_of::<T>() zero elements.
BigElems == << BigRun >>

\* Tensor::new: the identity is the fingerprint of the name.
TensorNew(name, data, k, shape) ==
    [id |-> hash_key(name), name |-> name, data |-> data, data_type |-> k,
     shape |-> shape]

\* bytemuck::cast_slice::<T, u8>(t.data())
CastSlice(data) == Flatten(data)

Names == { << 49 >>, << 50 >> }
DataChoices(k) ==
    { [i \in 1..n |-> Elem(k, i)] : n \in 1..MaxElems } \cup { << BigElems >> }
ShapeChoices == { << W(0, 1), W(0, 2) >>, << W(1, 0) >> }
TensorChoices(k) ==
    { TensorNew(n, d, k, sh) : n \in Names, d \in DataChoices(k), sh \in ShapeChoices }
TensorLists(k) ==
    UNION { [1..n -> TensorChoices(k)] : n \in 0..MaxTensors }

(* ------------------------- metadata codec ------------------------------ *)
\* The trailer's tables as bytes.  Layout: the version string (length byte,
\* bytes), the tensor count, the tensor entries, the operation count.  An entry
\* is id (u64 LE), name (length byte, bytes), data_type, data_offset (u32 LE),
\* data_size (u32 LE), the number of dimensions and the dimensions (u32 LE).
IdToLe(id) ==
    << id[1] % 256, id[1] \div 256, id[2] % 256, id[2] \div 256,
       id[3] % 256, id[3] \div 256, id[4] % 256, id[4] \div 256 >>
IdFromLe(b) ==
    << b[1] + 256 * b[2], b[3] + 256 * b[4], b[5] + 256 * b[6], b[7] + 256 * b[8] >>

EncodeTensorMetadata(e) ==
    IdToLe(e.id) \o << Len(e.name) >> \o e.name \o << e.data_type >>
        \o U32ToLe(e.data_offset) \o U32ToLe(e.data_size)
        \o << Len(e.shape) >> \o Flatten([i \in 1..Len(e.shape) |-> U32ToLe(e.shape[i])])

EncodeMetadata(root) ==
    << Len(root.version) >> \o root.version \o << Len(root.tensors) >>
        \o Flatten([i \in 1..Len(root.tensors) |-> EncodeTensorMetadata(root.tensors[i])])
        \o << Len(root.operations) >>

InBuf(b, p, n) == p >= 1 /\ n >= 0 /\ p + n - 1 <= Len(b)
Sub(b, p, n) == SubSeq(b, p, p + n - 1)
NoTensor == [ok |-> FALSE, val |-> << >>, next |-> 0]

\* One tensor entry read at index p of b.
ParseTensor(b, p) ==
    IF ~InBuf(b, p, 9) THEN NoTensor
    ELSE LET nl == b[p + 8]
             q  == p + 9 + nl
         IN  IF ~InBuf(b, p + 9, nl + 10) THEN NoTensor
             ELSE LET cnt == b[q + 9]
                  IN  IF ~InBuf(b, q + 10, 4 * cnt) THEN NoTensor
                      ELSE [ok |-> TRUE,
                            val |-> [id |-> IdFromLe(Sub(b, p, 8)),
                                     name |-> Sub(b, p + 9, nl),
                                     data_type |-> b[q],
                                     data_offset |-> U32FromLe(Sub(b, q + 1, 4)),
                                     data_size |-> U32FromLe(Sub(b, q + 5, 4)),
                                     shape |-> [i \in 1..cnt |->
                                                  U32FromLe(Sub(b, q + 10 + 4 * (i - 1), 4))]],
                            next |-> q + 10 + 4 * cnt]

RECURSIVE ParseTensors(_, _, _)
\* n tensor entries read from index p of b on.
ParseTensors(b, p, n) ==
    IF n = 0 THEN [ok |-> TRUE, val |-> << >>, next |-> p]
    ELSE LET t == ParseTensor(b, p)
         IN  IF ~t.ok THEN NoTensor
             ELSE LET r == ParseTensors(b, t.next, n - 1)
                  IN  IF ~r.ok THEN NoTensor
                      ELSE [ok |-> TRUE, val |-> << t.val >> \o r.val, next |-> r.next]

NoMetadata == [ok |-> FALSE, version |-> << >>, tensors |-> << >>, operations |-> << >>]

\* flatbuffers::root::<TensorBuffersMetadata>: the verified root of b, read from
\* the start of b (bytes after the tables are not looked at).
DecodeMetadata(b) ==
    IF ~InBuf(b, 1, 1) THEN NoMetadata
    ELSE LET vl == b[1]
         IN  IF ~InBuf(b, 2, vl + 1) THEN NoMetadata
             ELSE LET ts == ParseTensors(b, vl + 3, b[vl + 2])
                  IN  IF ~ts.ok \/ ~InBuf(b, ts.next, 1) THEN NoMetadata
                      ELSE [ok |-> TRUE, version |-> Sub(b, 2, vl),
                            tensors |-> ts.val, operations |-> << >>]

(* ------------------------------ writer --------------------------------- *)
\* The TensorMetadata of tensor t whose bytes were written at data_offset
\* (tensor_buffers_writer.rs, the second loop; the same as Tensor::build_table).
TensorMetadataOf(t, data_offset) ==
    [id |-> t.id,
     name |-> t.name,
     data_type |-> t.data_type,
     data_offset |-> data_offset,
     data_size |-> AsU32(ByteLen(CastSlice(t.data))),
     shape |-> [i \in 1..Len(t.shape) |-> AsU32(t.shape[i])]]

\* The finished trailer of write_tensors: builder.finished_data().
FlatbufferData(ts, offsets) ==
    EncodeMetadata([version |-> VERSION,
                    tensors |-> [i \in 1..Len(ts) |-> TensorMetadataOf(ts[i], offsets[i])],
                    operations |-> << >>])

\* The first loop of write_tensors as a whole: the Vec data_offsets after the
\* tensors ts, when the running cursor stood at cur before them.
RECURSIVE DataOffsetsFrom(_, _)
DataOffsetsFrom(ts, cur) ==
    IF ts = << >> THEN << >>
    ELSE << AsU32(cur) >>
            \o DataOffsetsFrom(Tail(ts), WAdd(cur, AsU32(ByteLen(CastSlice(Head(ts).data)))))

\* The file write_tensors leaves in an empty sink that takes every byte.
WrittenFile(ts) ==
    LET flatbuffer_data == FlatbufferData(ts, DataOffsetsFrom(ts, W(0, 4)))
    IN  MAGIC_BYTES
            \o Flatten([i \in 1..Len(ts) |-> CastSlice(ts[i].data)])
            \o flatbuffer_data
            \o U32ToLe(AsU32(ByteLen(flatbuffer_data)))
            \o MAGIC_BYTES

\* What one call of AsyncWriteExt::write takes of buf on a sink that takes at
\* most max bytes a call (0: no limit).
Accepted(buf, max) == IF max = 0 THEN buf ELSE Take(buf, max)

VARIABLES
    tensors,         \* the tensors given to write_tensors
    sinkMax,         \* the most bytes the sink takes in one write call; 0: no limit
    sink,            \* the bytes in the sink
    wpc,             \* where write_tensors stands
    wres,            \* its result: "none", "Ok", "Err"
    current_offset,  \* u64
    data_offsets,    \* Vec<u32>
    metadata_size    \* u32

wvars == << tensors, sinkMax, sink, wpc, wres, current_offset, data_offsets, metadata_size >>

\* A reader on the written file.
VARIABLES
    tampered,   \* a sentinel byte of the file was altered after writing
    rpos,       \* the reader's cursor
    rop,        \* the last reader call: "none", "get_metadata_size", "read_metadata", "read_data"
    rres,       \* its result
    rbuf,       \* the caller's buffer after the call
    rnread,     \* the bytes the call's last read_exact put into the buffer
    rsize,      \* the metadata size the call obtained
    rmeta,      \* the trailer the caller decoded
    rentry      \* index in rmeta.tensors of the entry given to read_data

rvars == << tampered, rpos, rop, rres, rbuf, rnread, rsize, rmeta, rentry >>

\* A TensorBuffers on the written file.
VARIABLES
    cache,    \* metadata_root: the OnceCell, NoMetadata while unset
    flock,    \* the task that holds the reader's Mutex, 0 when free
    fpos,     \* the cursor of the facade's reader
    fpc,      \* where each task's call stands
    fcall,    \* each task's call
    fsize,    \* each task's metadata_size
    fmeta,    \* each task's tensor_metadata
    fres,     \* each task's result
    one_thread  \* the executor polls all tasks on one thread

fvars == << cache, flock, fpos, fpc, fcall, fsize, fmeta, fres, one_thread >>

\* A RemoteFile on a served resource, its one client, and a Local file with
\* the same content that is given the same calls.
VARIABLES
    resource,         \* the bytes the server holds
    overflow_checks,  \* the build traps integer overflow (debug) or wraps (release)
    file_size,        \* RemoteFile::file_size
    this_offset,      \* RemoteFile::offset
    state,            \* RemoteFile::state
    inflight,         \* range requests sent and neither answered nor aborted
    issued,           \* the last step sent a range request
    lastreq,          \* the range of the request sent last
    rfut,             \* the client's read future, if it has one
    mres,             \* how the client's last call on the RemoteFile ended
    lpos,             \* the Local file's cursor
    lres,             \* how the same call ended on the Local file
    clean,            \* no read was dropped and no request failed in transport
    url,              \* the string given to TensorBuffersFile::open
    head,             \* the server's answer to the HEAD request of fetch_file_size
    opened            \* what TensorBuffersFile::open returned

mvars == << resource, overflow_checks, file_size, this_offset, state, inflight, issued, lastreq,
            rfut, mres, lpos, lres, clean, url, head, opened >>

WriterInit ==
    /\ \E k \in DataType : tensors \in TensorLists(k)
    /\ sinkMax \in 0..MaxSinkChunk
    /\ sink = << >>
    /\ wpc = "magic"
    /\ wres = "none"
    /\ current_offset = W(0, 4)
    /\ data_offsets = << >>
    /\ metadata_size = WZero

\* self.writer.write_all(MAGIC_BYTES).await?
WriteLeadingMagic ==
    /\ wpc = "magic"
    /\ sink' = sink \o MAGIC_BYTES
    /\ wpc' = "data"
    /\ UNCHANGED << tensors, sinkMax, wres, current_offset, data_offsets, metadata_size >>
    /\ UNCHANGED << rvars, fvars, mvars >>

\* One round of the first loop: record the offset, write the tensor's bytes.
WriteTensorData ==
    /\ wpc = "data"
    /\ Len(data_offsets) < Len(tensors)
    /\ LET t == tensors[Len(data_offsets) + 1]
           data_bytes == CastSlice(t.data)
           data_size == AsU32(ByteLen(data_bytes))
       IN  /\ data_offsets' = Append(data_offsets, AsU32(current_offset))
           /\ sink' = sink \o data_bytes
           /\ current_offset' = WAdd(current_offset, data_size)
    /\ UNCHANGED << tensors, sinkMax, wpc, wres, metadata_size >>
    /\ UNCHANGED << rvars, fvars, mvars >>

\* The metadata is built and written with write_all.
WriteTrailer ==
    /\ wpc = "data"
    /\ Len(data_offsets) = Len(tensors)
    /\ LET flatbuffer_data == FlatbufferData(tensors, data_offsets)
       IN  /\ sink' = sink \o flatbuffer_data
           /\ metadata_size' = AsU32(ByteLen(flatbuffer_data))
    /\ wpc' = "size"
    /\ UNCHANGED << tensors, sinkMax, wres, current_offset, data_offsets >>
    /\ UNCHANGED << rvars, fvars, mvars >>

\* self.writer.write(metadata_size.to_le_bytes().as_ref()).await?
WriteMetadataSize ==
    /\ wpc = "size"
    /\ sink' = sink \o Accepted(U32ToLe(metadata_size), sinkMax)
    /\ wpc' = "tail"
    /\ UNCHANGED << tensors, sinkMax, wres, current_offset, data_offsets, metadata_size >>
    /\ UNCHANGED << rvars, fvars, mvars >>

\* self.writer.write(MAGIC_BYTES).await?
WriteTrailingMagic ==
    /\ wpc = "tail"
    /\ sink' = sink \o Accepted(MAGIC_BYTES, sinkMax)
    /\ wpc' = "flush"
    /\ UNCHANGED << tensors, sinkMax, wres, current_offset, data_offsets, metadata_size >>
    /\ UNCHANGED << rvars, fvars, mvars >>

\* self.writer.flush().await?; Ok(())
WriterFlush ==
    /\ wpc = "flush"
    /\ wpc' = "done"
    /\ wres' = "Ok"
    /\ UNCHANGED << tensors, sinkMax, sink, current_offset, data_offsets, metadata_size >>
    /\ UNCHANGED << rvars, fvars, mvars >>

\* A write_tensors that notes the error of a write and goes on.
WriterFailIgnored ==
    /\ wpc \in { "magic", "data", "size", "tail", "flush" }
    /\ wres = "none"
    /\ wres' = "Err"
    /\ UNCHANGED << tensors, sinkMax, sink, wpc, current_offset, data_offsets, metadata_size >>
    /\ UNCHANGED << rvars, fvars, mvars >>

\* Any write or the flush fails: `?` returns the error at once.
WriterFail ==
    /\ wpc \in { "magic", "data", "size", "tail", "flush" }
    /\ wpc' = "done"
    /\ wres' = "Err"
    /\ UNCHANGED << tensors, sinkMax, sink, current_offset, data_offsets, metadata_size >>
    /\ UNCHANGED << rvars, fvars, mvars >>

WriterNext ==
    \/ WriteLeadingMagic
    \/ WriteTensorData
    \/ WriteTrailer
    \/ WriteMetadataSize
    \/ WriteTrailingMagic
    \/ WriterFlush
    \/ WriterFail

(* ------------------------- local byte source --------------------------- *)
WSub(a, b) == W(a.hi - b.hi, a.lo - b.lo)

\* AsyncReadExt::read_exact of n bytes at cursor pos of a file: the bytes read,
\* their number, the cursor afterwards; UnexpectedEof when the file ends first
\* (the rest of the zeroed buffer is left as it was).
ReadExact(content, pos, n) ==
    LET got == BytesAt(content, pos, n)
        cnt == Cardinality({ k \in 1..n : got[k] # -2 })
    IN  [ok |-> cnt = n,
         buf |-> [k \in 1..n |-> IF got[k] = -2 THEN 0 ELSE got[k]],
         nread |-> cnt,
         pos |-> WAddInt(pos, cnt)]

\* seek(SeekFrom::End(-back)): fails on a position before the start.
SeekEnd(content, back) ==
    LET to == WSub(ByteLen(content), back)
    IN  [ok |-> ~WNeg(to), pos |-> to]

(* ------------------------- TensorBuffersReader ------------------------- *)
RdResult(res, buf, nread, pos, size) ==
    [res |-> res, buf |-> buf, nread |-> nread, pos |-> pos, size |-> size]

\* get_metadata_size, from cursor pos.
GetMetadataSize(content, pos) ==
    LET sk == SeekEnd(content, W(0, 8))
    IN  IF ~sk.ok THEN RdResult("Io", << >>, 0, pos, WZero)
        ELSE LET rd == ReadExact(content, sk.pos, 4)
             IN  IF ~rd.ok THEN RdResult("Io", << >>, rd.nread, rd.pos, WZero)
                 ELSE RdResult("Ok", << >>, 4, rd.pos, U32FromLe(rd.buf))

\* read_metadata(buf) with a zeroed buf of buflen bytes.
ReadMetadata(content, pos, buflen) ==
    LET zero  == [k \in 1..buflen |-> 0]
        magic == ReadExact(content, WZero, 4)
    IN  IF ~magic.ok THEN RdResult("Io", zero, 0, magic.pos, WZero)
        ELSE IF magic.buf # MAGIC_BYTES THEN RdResult("InvalidMagic", zero, 0, magic.pos, WZero)
        ELSE LET ms == GetMetadataSize(content, magic.pos)
             IN  IF ms.res # "Ok" THEN RdResult("Io", zero, 0, ms.pos, WZero)
                 ELSE IF WLt(W(0, buflen), ms.size)
                      THEN RdResult("BufferTooSmall", zero, 0, ms.pos, ms.size)
                 ELSE LET sk == SeekEnd(content, WAddInt(ms.size, 8))
                      IN  IF ~sk.ok THEN RdResult("Io", zero, 0, ms.pos, ms.size)
                          ELSE LET rd == ReadExact(content, sk.pos, buflen)
                               IN  RdResult(IF rd.ok THEN "Ok" ELSE "Io",
                                            rd.buf, rd.nread, rd.pos, ms.size)

\* read_data_with_metadata(tensor_metadata, buf) with a zeroed buf of buflen bytes.
ReadDataWithMetadata(content, tensor_metadata, buflen) ==
    LET zero   == [k \in 1..buflen |-> 0]
        offset == tensor_metadata.data_offset
        size   == tensor_metadata.data_size
    IN  IF WLt(W(0, buflen), size) THEN RdResult("BufferTooSmall", zero, 0, offset, size)
        ELSE LET rd == ReadExact(content, offset, buflen)
             IN  RdResult(IF rd.ok THEN "Ok" ELSE "Io", rd.buf, rd.nread, rd.pos, size)

(* --------------------- a reader on the written file -------------------- *)

ReaderInit ==
    /\ tampered = FALSE
    /\ rpos = WZero
    /\ rop = "none"
    /\ rres = "none"
    /\ rbuf = << >>
    /\ rnread = 0
    /\ rsize = WZero
    /\ rmeta = NoMetadata
    /\ rentry = 0

\* The file the reader opens is what write_tensors left when it returned Ok.
Written == wpc = "done" /\ wres = "Ok"

\* The buffer lengths a caller tries against a required size: one short, exact,
\* one over, and far enough over to pass the end of the file.
BufLens(size) ==
    IF size.hi # 0 \/ size.lo > Len(sink) THEN { 0 }
    ELSE { n \in { size.lo - 1, size.lo, size.lo + 1, size.lo + MaxBufSlack } : n >= 0 }

\* Someone alters one byte of the leading or of the trailing sentinel.
Tamper ==
    /\ Written
    /\ ~tampered
    /\ rop = "none"
    /\ \E p \in { 1, 4, Len(sink) - 3, Len(sink) } :
          sink' = [sink EXCEPT ![p] = (@ + 1) % 256]
    /\ tampered' = TRUE
    /\ UNCHANGED << tensors, sinkMax, wpc, wres, current_offset, data_offsets, metadata_size >>
    /\ UNCHANGED << rpos, rop, rres, rbuf, rnread, rsize, rmeta, rentry >>
    /\ UNCHANGED << fvars, mvars >>

RdGetMetadataSize ==
    /\ Written
    /\ ~rmeta.ok
    /\ \E r \in { GetMetadataSize(sink, rpos) } :
           /\ rop' = "get_metadata_size"
           /\ rres' = r.res
           /\ rbuf' = r.buf
           /\ rnread' = r.nread
           /\ rpos' = r.pos
           /\ rsize' = r.size
    /\ UNCHANGED << wvars, tampered, rmeta, rentry >>
    /\ UNCHANGED << fvars, mvars >>

RdReadMetadata ==
    /\ Written
    /\ ~rmeta.ok
    /\ rop = "get_metadata_size"
    /\ rres = "Ok"
    /\ \E buflen \in BufLens(rsize) :
          \E r \in { ReadMetadata(sink, rpos, buflen) } :
              /\ rop' = "read_metadata"
              /\ rres' = r.res
              /\ rbuf' = r.buf
              /\ rnread' = r.nread
              /\ rpos' = r.pos
              /\ rsize' = r.size
    /\ UNCHANGED << wvars, tampered, rmeta, rentry >>
    /\ UNCHANGED << fvars, mvars >>

\* flatbuffers::root::<TensorBuffersMetadata>(&metadata_buf)
RdDecode ==
    /\ rop = "read_metadata"
    /\ rres = "Ok"
    /\ ~rmeta.ok
    /\ \E m \in { DecodeMetadata(rbuf) } :
          /\ m.ok
          /\ rmeta' = m
    /\ UNCHANGED << wvars, tampered, rpos, rop, rres, rbuf, rnread, rsize, rentry >>
    /\ UNCHANGED << fvars, mvars >>

RdReadData ==
    /\ rmeta.ok
    /\ \E i \in 1..Len(rmeta.tensors) :
       \E buflen \in BufLens(rmeta.tensors[i].data_size) :
          \E r \in { ReadDataWithMetadata(sink, rmeta.tensors[i], buflen) } :
              /\ rop' = "read_data"
              /\ rentry' = i
              /\ rres' = r.res
              /\ rbuf' = r.buf
              /\ rnread' = r.nread
              /\ rpos' = r.pos
              /\ rsize' = r.size
    /\ UNCHANGED << wvars, tampered, rmeta >>
    /\ UNCHANGED << fvars, mvars >>

ReaderNext ==
    \/ Tamper
    \/ RdGetMetadataSize
    \/ RdReadMetadata
    \/ RdDecode
    \/ RdReadData

(* --------------------------- TensorBuffers ----------------------------- *)
NumTasks == 2

FTasks == 1..NumTasks

\* Vector::lookup_by_key with key_compare_with_value: a binary search for key
\* among the ids of table[left + 1 .. right + 1].
RECURSIVE BinarySearch(_, _, _, _)
BinarySearch(table, left, right, key) ==
    IF left > right THEN 0
    ELSE LET mid == (left + right) \div 2
             value == table[mid + 1]
         IN  IF value.id = key THEN mid + 1
             ELSE IF IdLt(value.id, key) THEN BinarySearch(table, mid + 1, right, key)
             ELSE IF mid = 0 THEN 0
             ELSE BinarySearch(table, left, mid - 1, key)

\* The index of the entry lookup_by_key returns, 0 for None.
LookupByKey(table, key) ==
    IF table = << >> THEN 0 ELSE BinarySearch(table, 0, Len(table) - 1, key)

NoEntry ==
    [id |-> << 0, 0, 0, 0 >>, name |-> << >>, data_type |-> 0, data_offset |-> WZero,
     data_size |-> WZero, shape |-> << >>]
NoCall == [op |-> "none", id |-> << 0, 0, 0, 0 >>, T |-> 0]
FResult(st, err, meta, data) == [st |-> st, err |-> err, meta |-> meta, data |-> data]
NoResult == FResult("none", "", NoEntry, << >>)
FErr(err) == FResult("Err", err, NoEntry, << >>)

\* The ids and names callers ask for: those of the names in use and one absent.
AbsentName == << 51 >>
CallIds == { hash_key(n) : n \in Names \cup { AbsentName } }
FKinds == { 2, 8 }
\* get_tensor_data_by_name(name) is get_tensor_data_by_id(hash_key(name)).
Calls ==
    { [op |-> o, id |-> i, T |-> 0] :
        o \in { "get_tensor_metadata", "get_tensor_operation_by_id" }, i \in CallIds }
    \cup { [op |-> o, id |-> i, T |-> k] :
        o \in { "get_tensor_data_by_id", "get_tensor_data_by_name" }, i \in CallIds,
        k \in FKinds }


FacadeInit ==
    /\ cache = NoMetadata
    /\ flock = 0
    /\ fpos = WZero
    /\ fpc = [t \in FTasks |-> "idle"]
    /\ fcall = [t \in FTasks |-> NoCall]
    /\ fsize = [t \in FTasks |-> WZero]
    /\ fmeta = [t \in FTasks |-> NoEntry]
    /\ fres = [t \in FTasks |-> NoResult]

\* What a call does with the trailer once get_metadata_root returned it: the
\* task's next position, tensor_metadata and result.
AfterRoot(call, root) ==
    IF call.op = "get_tensor_operation_by_id"
    THEN [pc |-> "done", meta |-> NoEntry, res |-> FErr("NotFound")]
    ELSE LET i == LookupByKey(root.tensors, call.id)
         IN  IF i = 0 THEN [pc |-> "done", meta |-> NoEntry, res |-> FErr("NotFound")]
             ELSE IF call.op = "get_tensor_metadata"
                  THEN [pc |-> "done", meta |-> root.tensors[i],
                        res |-> FResult("Ok", "", root.tensors[i], << >>)]
             ELSE IF root.tensors[i].data_type # call.T
                  THEN [pc |-> "done", meta |-> root.tensors[i], res |-> FErr("TypeMismatch")]
             ELSE [pc |-> "data_lock", meta |-> root.tensors[i], res |-> NoResult]

\* The thread that polls task t is free to poll it: with all tasks on one
\* thread, no task stands inside Mutex::lock (which blocks the thread it is
\* called on until the guard is dropped) or has panicked in it.
Runnable(t) ==
    ~one_thread \/ \A u \in FTasks :
                     fpc[u] \notin { "size_wait", "meta_wait", "data_wait", "panicked" }

\* A task calls one of the facade's methods.
FCall(t) ==
    /\ Runnable(t)
    /\ fpc[t] \in { "idle", "done" }
    /\ \E c \in Calls : fcall' = [fcall EXCEPT ![t] = c]
    /\ fpc' = [fpc EXCEPT ![t] = "root"]
    /\ fres' = [fres EXCEPT ![t] = NoResult]
    /\ fmeta' = [fmeta EXCEPT ![t] = NoEntry]
    /\ fsize' = [fsize EXCEPT ![t] = WZero]
    /\ UNCHANGED << cache, flock, fpos, one_thread >>
    /\ UNCHANGED << wvars, rvars, mvars >>

\* get_metadata_root: if let Some(metadata_root) = self.metadata_root.get()
FCacheCheck(t) ==
    /\ Runnable(t)
    /\ fpc[t] = "root"
    /\ IF cache.ok
       THEN \E a \in { AfterRoot(fcall[t], cache) } :
               /\ fpc' = [fpc EXCEPT ![t] = a.pc]
               /\ fmeta' = [fmeta EXCEPT ![t] = a.meta]
               /\ fres' = [fres EXCEPT ![t] = a.res]
       ELSE /\ fpc' = [fpc EXCEPT ![t] = "size_lock"]
            /\ UNCHANGED << fmeta, fres >>
    /\ UNCHANGED << cache, flock, fpos, fcall, fsize, one_thread >>
    /\ UNCHANGED << wvars, rvars, mvars >>

\* self.reader.lock().unwrap() of std::sync::Mutex: the guard lives to the
\* end of the statement, across the await of the reader call.  With the Mutex
\* free the task takes it; with the guard held by another task the call does
\* not return: it blocks the thread until the guard is dropped, and when the
\* holder is a task of the same thread it blocks for good or panics (std
\* leaves open which).
FLock(t) ==
    /\ \/ /\ Runnable(t)
          /\ fpc[t] \in { "size_lock", "meta_lock", "data_lock" }
       \/ /\ fpc[t] \in { "size_wait", "meta_wait", "data_wait" }
          /\ flock = 0
    /\ IF flock = 0
       THEN /\ flock' = t
            /\ fpc' = [fpc EXCEPT ![t] =
                          CASE fpc[t] \in { "size_lock", "size_wait" } -> "size_io"
                            [] fpc[t] \in { "meta_lock", "meta_wait" } -> "meta_io"
                            [] OTHER -> "data_io"]
       ELSE /\ flock' = flock
            /\ \E stuck \in IF one_thread THEN { "wait", "panicked" } ELSE { "wait" } :
                  fpc' = [fpc EXCEPT ![t] =
                             CASE stuck = "panicked" -> "panicked"
                               [] fpc[t] = "size_lock" -> "size_wait"
                               [] fpc[t] = "meta_lock" -> "meta_wait"
                               [] OTHER -> "data_wait"]
    /\ UNCHANGED << cache, fpos, fcall, fsize, fmeta, fres, one_thread >>
    /\ UNCHANGED << wvars, rvars, mvars >>

\* What the statement a task stands in does once it holds the guard, as the
\* next values of the state it touches:
\*   size_io: get_metadata_size().await?
\*   meta_io: buf = BytesMut::with_capacity(metadata_size), a buffer of length
\*            0; read_metadata(&mut buf).await?, then flatbuffers::root,
\*            metadata_root.set, metadata_root.get and the caller's lookup
\*   data_io: buf.resize(size, 0); read_data_with_metadata(tensor_metadata,
\*            &mut buf).await?, then the size check and
\*            Tensor::new_with_metadata_and_data
FOutcome(pc, size, c, meta, res) ==
    [pc |-> pc, size |-> size, cache |-> c, meta |-> meta, res |-> res]

FIoOutcome(t, r) ==
    IF r.res # "Ok" THEN FOutcome("done", fsize[t], cache, fmeta[t], FErr(r.res))
    ELSE IF fpc[t] = "size_io"
    THEN FOutcome("meta_lock", r.size, cache, fmeta[t], fres[t])
    ELSE IF fpc[t] = "meta_io"
    THEN LET m == DecodeMetadata(r.buf)
         IN  IF ~m.ok THEN FOutcome("done", fsize[t], cache, fmeta[t], FErr("Decode"))
             ELSE IF cache.ok
             THEN FOutcome("done", fsize[t], cache, fmeta[t], FErr("SetFailed"))
             ELSE LET a == AfterRoot(fcall[t], m)
                  IN  FOutcome(a.pc, fsize[t], m, a.meta, a.res)
    ELSE IF fmeta[t].data_size.lo % SizeOf(fcall[t].T) # 0
    THEN FOutcome("done", fsize[t], cache, fmeta[t], FErr("SizeNotMultiple"))
    ELSE FOutcome("done", fsize[t], cache, fmeta[t], FResult("Ok", "", fmeta[t], r.buf))

\* The reader call of the statement completes and the guard is dropped.
FIo(t) ==
    /\ Runnable(t)
    /\ fpc[t] \in { "size_io", "meta_io", "data_io" }
    /\ flock = t
    /\ flock' = 0
    /\ \E r \in { CASE fpc[t] = "size_io" -> GetMetadataSize(sink, fpos)
                    [] fpc[t] = "meta_io" -> ReadMetadata(sink, fpos, 0)
                    [] OTHER -> ReadDataWithMetadata(sink, fmeta[t], fmeta[t].data_size.lo) } :
          /\ fpos' = r.pos
          /\ \E o \in { FIoOutcome(t, r) } :
                /\ fpc' = [fpc EXCEPT ![t] = o.pc]
                /\ fsize' = [fsize EXCEPT ![t] = o.size]
                /\ cache' = o.cache
                /\ fmeta' = [fmeta EXCEPT ![t] = o.meta]
                /\ fres' = [fres EXCEPT ![t] = o.res]
    /\ UNCHANGED << fcall, one_thread >>
    /\ UNCHANGED << wvars, rvars, mvars >>

FacadeNext == \E t \in FTasks : FCall(t) \/ FCacheCheck(t) \/ FLock(t) \/ FIo(t)

(* ----------------------------- RemoteFile ------------------------------ *)
\* u64 values near 0 and near 2^64: [top |-> FALSE, v |-> n] is n >= 0 and
\* [top |-> TRUE, v |-> -k] is 2^64 - k, k >= 1.
U(n) == [top |-> FALSE, v |-> n]
UTop(k) == [top |-> TRUE, v |-> 0 - k]
ULe(a, b) == IF a.top = b.top THEN a.v <= b.v ELSE b.top
NoU64 == [ok |-> FALSE, val |-> U(0)]
SomeU64(x) == [ok |-> TRUE, val |-> x]

\* u64::wrapping_add_signed(base, d): the sum modulo 2^64, never none.
WrappingAddSigned(base, d) == SomeU64([top |-> base.v + d < 0, v |-> base.v + d])

\* u64::checked_add_signed(base, d) for an i64 d of small magnitude.
CheckedAddSigned(base, d) ==
    LET r == base.v + d
    IN  IF base.top THEN (IF r >= 0 THEN NoU64 ELSE SomeU64([top |-> TRUE, v |-> r]))
        ELSE (IF r < 0 THEN NoU64 ELSE SomeU64(U(r)))

\* a + n and a - b on u64 when the result wraps modulo 2^64.
WrappingAdd(a, n) ==
    LET r == a.v + n
    IN  IF a.top /\ r >= 0 THEN U(r)
        ELSE IF ~a.top /\ r < 0 THEN [top |-> TRUE, v |-> r]
        ELSE [top |-> a.top, v |-> r]
WrappingSub(a, b) ==
    IF a.top = b.top
    THEN (IF a.v >= b.v THEN U(a.v - b.v) ELSE [top |-> TRUE, v |-> a.v - b.v])
    ELSE IF a.top THEN [top |-> TRUE, v |-> a.v - b.v]
    ELSE U(a.v - b.v)

\* SeekFrom: Start(u64), End(i64), Current(i64).
SeekStart(p) == [whence |-> "Start", pos |-> p, d |-> 0]
SeekFromEnd(d) == [whence |-> "End", pos |-> U(0), d |-> d]
SeekCurrent(d) == [whence |-> "Current", pos |-> U(0), d |-> d]

\* A start_seek that takes End relative to the cursor.
StartSeekFromCursor(size, offset, position) ==
    IF position.whence = "Start" THEN SomeU64(position.pos)
    ELSE CheckedAddSigned(offset, position.d)

\* RemoteFile::start_seek: the new offset, or none on "Seek overflow".
StartSeek(size, offset, position) ==
    CASE position.whence = "Start" -> SomeU64(position.pos)
      [] position.whence = "End" -> CheckedAddSigned(size, position.d)
      [] OTHER -> CheckedAddSigned(offset, position.d)

\* poll_read, Idle: (this.file_size - this.offset).min(buf.capacity() as u64).
\* Past the end the subtraction overflows: the build panics or wraps.
ReadSize(total, offset, capacity, checks) ==
    IF ULe(offset, total)
    THEN [panic |-> FALSE, size |-> Min(total.v - offset.v, capacity)]
    ELSE IF checks THEN [panic |-> TRUE, size |-> 0]
    ELSE LET diff == WrappingSub(total, offset)
         IN  [panic |-> FALSE, size |-> IF diff.top THEN capacity ELSE Min(diff.v, capacity)]

\* fetch_range: the Range header bytes=<offset>-<offset + size - 1>, as its two
\* numbers; offset + size overflows near 2^64.
RangeOf(offset, size, checks) ==
    LET end == WrappingAdd(offset, size)
    IN  [panic |-> checks /\ offset.top /\ ~end.top,
         first |-> offset,
         last |-> WrappingAdd(end, -1)]

\* The server's answer to a range request on the resource: the bytes of the
\* range when it lies in the resource, no success status otherwise.
InResource(content, range) ==
    /\ ~range.first.top /\ ~range.last.top
    /\ range.first.v <= range.last.v
    /\ range.last.v < Len(content)
RangeBytes(content, range) ==
    IF InResource(content, range)
    THEN SubSeq(content, range.first.v + 1, range.last.v + 1)
    ELSE << >>

\* ReadState: Idle, or Fetch with the future of one fetch_range call: its
\* range, how far it got ("pending": not yet ready, "ok" / "err": ready and not
\* yet polled, "taken": it returned Ready to a poll) and the bytes it yields.
Idle == [tag |-> "Idle", range |-> [first |-> U(0), last |-> U(0)], done |-> "none",
         bytes |-> << >>]
Fetch(range, done, bytes) == [tag |-> "Fetch", range |-> range, done |-> done, bytes |-> bytes]

\* A poll_read that takes the Idle branch whatever the state is.
PollBranchIdle(st) == "Idle"

\* poll_read: match &mut this.state
PollBranch(st) == st.tag

ShortLen == 2
LongLen == 8
MaxPast == 2
MaxCap == 2

Resources == { [i \in 1..n |-> i] : n \in { ShortLen, LongLen } }

NoRead == [kind |-> "none", op |-> "none", cap |-> 0, got |-> << >>]
NoSeek == [whence |-> "none", pos |-> U(0), d |-> 0]
MRes(op, st, bytes, pos) == [op |-> op, st |-> st, bytes |-> bytes, pos |-> pos]
LRes(st, bytes) == [st |-> st, bytes |-> bytes]

(* Opening: TensorBuffersFile::open and RemoteFile::open.  A string is a
   sequence of one-character strings. *)
\* str::starts_with
StartsWith(str, prefix) ==
    Len(str) >= Len(prefix) /\ SubSeq(str, 1, Len(prefix)) = prefix

DigitChars == << "0", "1", "2", "3", "4", "5", "6", "7", "8", "9" >>

\* str::parse::<u64>: an optional "+" and then one or more decimal digits.
RECURSIVE ParseDigits(_, _)
ParseDigits(str, acc) ==
    IF str = << >> THEN [ok |-> TRUE, val |-> acc]
    ELSE IF \E d \in 1..10 : DigitChars[d] = Head(str)
    THEN ParseDigits(Tail(str), 10 * acc + (CHOOSE d \in 1..10 : DigitChars[d] = Head(str)) - 1)
    ELSE [ok |-> FALSE, val |-> 0]
ParseU64(str) ==
    LET digits == IF str # << >> /\ Head(str) = "+" THEN Tail(str) ELSE str
    IN  IF digits = << >> THEN [ok |-> FALSE, val |-> 0] ELSE ParseDigits(digits, 0)

\* The answers to the HEAD request for a resource of fewer than 10 bytes:
\* whether the request could be sent, whether the status is a success, and the
\* Content-Length header, if any.
HeadResponses(content) ==
    { [sent |-> TRUE, success |-> ok, present |-> TRUE, value |-> v] :
         ok \in BOOLEAN,
         v \in { << DigitChars[Len(content) + 1] >>, << "+", DigitChars[Len(content) + 1] >>,
                 << >>, << "-", "1" >>, << "2", "x" >> } }
    \cup { [sent |-> TRUE, success |-> TRUE, present |-> FALSE, value |-> << >>],
           [sent |-> FALSE, success |-> FALSE, present |-> FALSE, value |-> << >>] }

\* A fetch_file_size that does not look at the status.
FetchFileSizeAnyStatus(h) ==
    IF ~h.sent THEN [ok |-> FALSE, size |-> 0, err |-> "Other"]
    ELSE IF h.present
    THEN (IF ParseU64(h.value).ok
          THEN [ok |-> TRUE, size |-> ParseU64(h.value).val, err |-> ""]
          ELSE [ok |-> FALSE, size |-> 0, err |-> "InvalidData"])
    ELSE [ok |-> FALSE, size |-> 0, err |-> "Other"]

\* RemoteFile::fetch_file_size
FetchFileSize(h) ==
    IF ~h.sent THEN [ok |-> FALSE, size |-> 0, err |-> "Other"]
    ELSE IF h.success /\ h.present
    THEN (IF ParseU64(h.value).ok
          THEN [ok |-> TRUE, size |-> ParseU64(h.value).val, err |-> ""]
          ELSE [ok |-> FALSE, size |-> 0, err |-> "InvalidData"])
    ELSE [ok |-> FALSE, size |-> 0, err |-> "Other"]

FileScheme == << "f", "i", "l", "e", ":", "/", "/" >>
HttpsScheme == << "h", "t", "t", "p", "s", ":", "/", "/" >>
\* The paths File::open finds.
LocalPaths == { << "a" >> }
Urls ==
    { FileScheme \o << "a" >>, FileScheme \o << "b" >>, HttpsScheme \o << "h" >>,
      << "h", "t", "t", "p", ":", "/", "/", "h" >>, << "a" >>, << >>,
      << " " >> \o HttpsScheme \o << "h" >> }

\* What open returns: the variant ("none" with the error when it fails), the
\* path it opened, the RemoteFile's file_size, and how many files it tried to
\* open and how many HEAD requests it sent.
Opened(variant, err, path, size, opens, heads) ==
    [variant |-> variant, err |-> err, path |-> path, file_size |-> size,
     opens |-> opens, heads |-> heads]

\* A TensorBuffersFile::open that takes every string without the file scheme
\* for a remote address.
TensorBuffersFileOpenAnyRemote(str, h) ==
    IF StartsWith(str, FileScheme)
    THEN LET path == SubSeq(str, Len(FileScheme) + 1, Len(str))
         IN  IF path \in LocalPaths THEN Opened("Local", "", path, 0, 1, 0)
             ELSE Opened("none", "NotFound", path, 0, 1, 0)
    ELSE LET r == FetchFileSize(h)
         IN  IF r.ok THEN Opened("Remote", "", << >>, r.size, 0, 1)
             ELSE Opened("none", r.err, << >>, 0, 0, 1)

\* TensorBuffersFile::open, with RemoteFile::open for the Remote variant.
TensorBuffersFileOpen(str, h) ==
    IF StartsWith(str, FileScheme)
    THEN LET path == SubSeq(str, Len(FileScheme) + 1, Len(str))
         IN  IF path \in LocalPaths THEN Opened("Local", "", path, 0, 1, 0)
             ELSE Opened("none", "NotFound", path, 0, 1, 0)
    ELSE IF StartsWith(str, HttpsScheme)
    THEN LET r == FetchFileSize(h)
         IN  IF r.ok THEN Opened("Remote", "", << >>, r.size, 0, 1)
             ELSE Opened("none", r.err, << >>, 0, 0, 1)
    ELSE Opened("none", "InvalidInput", << >>, 0, 0, 0)

RemoteInit ==
    /\ resource \in Resources
    /\ overflow_checks \in BOOLEAN
    /\ url \in Urls
    /\ head \in HeadResponses(resource)
    /\ opened = TensorBuffersFileOpen(url, head)
    /\ file_size = U(opened.file_size)
    /\ this_offset = U(0)
    /\ state = Idle
    /\ inflight = 0
    /\ issued = FALSE
    /\ lastreq = Idle.range
    /\ rfut = NoRead
    /\ mres = MRes("none", "none", << >>, U(0))
    /\ lpos = 0
    /\ lres = LRes("none", << >>)
    /\ clean = TRUE

\* No RemoteFile is open.
RemoteUnused ==
    /\ url = << >>
    /\ head = [sent |-> FALSE, success |-> FALSE, present |-> FALSE, value |-> << >>]
    /\ opened = Opened("none", "", << >>, 0, 0, 0)
    /\ resource = << >>
    /\ overflow_checks = FALSE
    /\ file_size = U(0)
    /\ this_offset = U(0)
    /\ state = Idle
    /\ inflight = 0
    /\ issued = FALSE
    /\ lastreq = Idle.range
    /\ rfut = NoRead
    /\ mres = MRes("none", "none", << >>, U(0))
    /\ lpos = 0
    /\ lres = LRes("none", << >>)
    /\ clean = TRUE

\* poll_read(buf) on a ReadBuf of capacity cap already filled with got.
PollOut(ret, offs, st, got, sent) ==
    [ret |-> ret, offset |-> offs, state |-> st, got |-> got, sent |-> sent]

PollRead(offs, st, cap, got) ==
    IF PollBranch(st) = "Idle"
    THEN LET sz == ReadSize(file_size, offs, cap, overflow_checks)
             rg == RangeOf(offs, sz.size, overflow_checks)
         IN  IF sz.panic THEN PollOut("Panic", offs, st, got, FALSE)
             ELSE IF sz.size = 0 THEN PollOut("Ready", offs, st, got, FALSE)
             ELSE IF rg.panic
             THEN PollOut("Panic", offs,
                          Fetch([first |-> rg.first, last |-> rg.last], "taken", << >>),
                          got, FALSE)
             ELSE PollOut("Pending", offs,
                          Fetch([first |-> rg.first, last |-> rg.last], "pending", << >>),
                          got, TRUE)
    ELSE CASE st.done = "pending" -> PollOut("Pending", offs, st, got, FALSE)
           [] st.done = "err" -> PollOut("Err", offs, [st EXCEPT !.done = "taken"], got, FALSE)
           [] st.done = "ok" ->
                LET n == Len(st.bytes)
                    new == WrappingAdd(offs, n)
                IN  IF n > cap - Len(got)
                    THEN PollOut("Panic", offs, [st EXCEPT !.done = "taken"], got, FALSE)
                    ELSE IF overflow_checks /\ offs.top /\ ~new.top
                    THEN PollOut("Panic", offs, [st EXCEPT !.done = "taken"],
                                 got \o st.bytes, FALSE)
                    ELSE PollOut("Ready", new, Idle, got \o st.bytes, FALSE)
           [] OTHER -> PollOut("Panic", offs, st, got, FALSE)

\* The same calls on the Local file: File::start_seek and the reads.
LocalStartSeek(pos, position) ==
    LET to == CASE position.whence = "Start" -> (IF position.pos.top THEN -1 ELSE position.pos.v)
                [] position.whence = "End" -> Len(resource) + position.d
                [] position.whence = "Current" -> pos + position.d
                [] OTHER -> pos
    IN  [ok |-> to >= 0, pos |-> IF to >= 0 THEN to ELSE pos]

LocalRead(kind, cap, pos) ==
    LET avail == IF pos >= Len(resource) THEN 0 ELSE Len(resource) - pos
        n == Min(cap, avail)
    IN  [st |-> IF kind = "read_exact" /\ n < cap THEN "Eof" ELSE "Ok",
         bytes |-> SubSeq(resource, pos + 1, pos + n),
         pos |-> pos + n]


\* The seeks the client makes; it does not walk the cursors further than
\* MaxPast bytes past the end with Current.
SeekChoices ==
    { SeekStart(U(p)) : p \in { 0, Len(resource) + 1 } }
    \cup { SeekStart(UTop(1)) }
    \cup { SeekFromEnd(d) : d \in { -1, 1 } }
    \cup { SeekCurrent(d) : d \in { n \in { -1 } :
                ~this_offset.top \/ this_offset.v > 0 - MaxPast } }
    \cup { SeekCurrent(d) : d \in { n \in { 1 } :
                /\ this_offset.top \/ this_offset.v < Len(resource) + MaxPast
                /\ lpos < Len(resource) + MaxPast } }

\* One call of the client on the RemoteFile, up to its first suspension: a
\* seek (start_seek, poll_complete), a read (the future is made, not yet
\* polled), or a seek followed by a read as the reader's methods do; the same
\* call is made on the Local file, where it completes at once.  The Local file
\* is followed as long as no read was dropped and no request failed.
Call(op, position, kind, cap) ==
    /\ opened.variant = "Remote"
    /\ rfut.kind = "none"
    /\ mres.st # "Panic"
    /\ issued' = FALSE
    /\ \E sk \in { IF position.whence = "none" THEN SomeU64(this_offset)
                   ELSE StartSeek(file_size, this_offset, position) } :
          /\ this_offset' = IF sk.ok THEN sk.val ELSE this_offset
          /\ rfut' = IF sk.ok /\ kind # "none"
                     THEN [kind |-> kind, op |-> op, cap |-> cap, got |-> << >>]
                     ELSE NoRead
          /\ mres' = IF ~sk.ok THEN MRes(op, "InvalidInput", << >>, this_offset)
                     ELSE IF kind = "none" THEN MRes(op, "Ok", << >>, sk.val)
                     ELSE MRes(op, "Pending", << >>, sk.val)
    /\ \E lsk \in { LocalStartSeek(lpos, position) } :
          IF ~clean THEN UNCHANGED << lpos, lres >>
          ELSE IF ~lsk.ok THEN lpos' = lpos /\ lres' = LRes("InvalidInput", << >>)
          ELSE IF kind = "none" THEN lpos' = lsk.pos /\ lres' = LRes("Ok", << >>)
          ELSE \E lr \in { LocalRead(kind, cap, lsk.pos) } :
                  lpos' = lr.pos /\ lres' = LRes(lr.st, lr.bytes)
    /\ UNCHANGED << url, head, opened >>
    /\ UNCHANGED << resource, overflow_checks, file_size, state, inflight, lastreq, clean >>
    /\ UNCHANGED << wvars, rvars, fvars >>

\* AsyncSeekExt::seek(position)
RSeek == \E position \in SeekChoices : Call("seek", position, "none", 0)

\* AsyncReadExt::read(buf) with a buffer of cap bytes
RRead ==
    /\ rfut.kind = "none"
    /\ \E cap \in 1..MaxCap : Call("read", NoSeek, "read", cap)

\* AsyncReadExt::read_exact(buf) with a buffer of cap bytes
RReadExact ==
    /\ rfut.kind = "none"
    /\ \E cap \in 1..MaxCap : Call("read_exact", NoSeek, "read_exact", cap)

\* TensorBuffersReader::get_metadata_size on the RemoteFile
RGetMetadataSize ==
    /\ rfut.kind = "none"
    /\ Call("get_metadata_size", SeekFromEnd(-8), "read_exact", 4)

\* TensorBuffersReader::read_data_with_metadata on the RemoteFile, for an entry
\* of any data_offset and data_size and a buffer of data_size bytes
RReadDataWithMetadata ==
    \E o \in { Len(resource) - 1, Len(resource) + 1 }, sz \in 1..MaxCap :
        Call("read_data", SeekStart(U(o)), "read_exact", sz)

\* The executor polls the client's read future: Read polls poll_read once on a
\* fresh ReadBuf; ReadExact polls it until the buffer is full and takes a
\* Ready that filled nothing for the end of the file.
RPoll ==
    /\ rfut.kind # "none"
    /\ \E r \in { PollRead(this_offset, state, rfut.cap, rfut.got) } :
          /\ this_offset' = r.offset
          /\ state' = r.state
          /\ issued' = r.sent
          /\ lastreq' = IF r.sent THEN r.state.range ELSE lastreq
          /\ inflight' = IF r.sent THEN inflight + 1 ELSE inflight
          /\ CASE r.ret = "Pending" -> UNCHANGED << rfut, mres >>
               [] r.ret = "Panic" ->
                    rfut' = NoRead /\ mres' = MRes(rfut.op, "Panic", r.got, r.offset)
               [] r.ret = "Err" ->
                    rfut' = NoRead /\ mres' = MRes(rfut.op, "Transport", r.got, r.offset)
               [] OTHER ->
                    IF rfut.kind = "read" \/ Len(r.got) = rfut.cap
                    THEN rfut' = NoRead /\ mres' = MRes(rfut.op, "Ok", r.got, r.offset)
                    ELSE IF Len(r.got) = Len(rfut.got)
                    THEN rfut' = NoRead /\ mres' = MRes(rfut.op, "Eof", r.got, r.offset)
                    ELSE rfut' = [rfut EXCEPT !.got = r.got] /\ UNCHANGED mres
    /\ UNCHANGED << url, head, opened >>
    /\ UNCHANGED << resource, overflow_checks, file_size, lpos, lres, clean >>
    /\ UNCHANGED << wvars, rvars, fvars >>

\* The server answers the pending request: the bytes of the range, or no
\* success status for a range outside the resource.
RServerRespond ==
    /\ state.tag = "Fetch"
    /\ state.done = "pending"
    /\ state' = [state EXCEPT
                    !.done = IF InResource(resource, state.range) THEN "ok" ELSE "err",
                    !.bytes = RangeBytes(resource, state.range)]
    /\ inflight' = inflight - 1
    /\ issued' = FALSE
    /\ UNCHANGED << url, head, opened >>
    /\ UNCHANGED << resource, overflow_checks, file_size, this_offset, lastreq, rfut, mres,
                    lpos, lres, clean >>
    /\ UNCHANGED << wvars, rvars, fvars >>

\* A server that ignores the Range header answers with a success status and
\* the whole resource (followed while the cursor is at most MaxPast).
RServerIgnoresRange ==
    /\ state.tag = "Fetch"
    /\ state.done = "pending"
    /\ ~this_offset.top /\ this_offset.v <= MaxPast
    /\ state' = [state EXCEPT !.done = "ok", !.bytes = resource]
    /\ inflight' = inflight - 1
    /\ issued' = FALSE
    /\ clean' = FALSE
    /\ lpos' = 0
    /\ lres' = LRes("none", << >>)
    /\ UNCHANGED << url, head, opened >>
    /\ UNCHANGED << resource, overflow_checks, file_size, this_offset, lastreq, rfut, mres >>
    /\ UNCHANGED << wvars, rvars, fvars >>

\* The request fails in transport.
RServerFail ==
    /\ state.tag = "Fetch"
    /\ state.done = "pending"
    /\ state' = [state EXCEPT !.done = "err"]
    /\ inflight' = inflight - 1
    /\ issued' = FALSE
    /\ clean' = FALSE
    /\ lpos' = 0
    /\ lres' = LRes("none", << >>)
    /\ UNCHANGED << url, head, opened >>
    /\ UNCHANGED << resource, overflow_checks, file_size, this_offset, lastreq, rfut, mres >>
    /\ UNCHANGED << wvars, rvars, fvars >>

\* The client drops its read future while it waits for the fetch.  The future
\* of fetch_range belongs to the RemoteFile's state and stays there.
RDropRead ==
    /\ rfut.kind # "none"
    /\ state.tag = "Fetch"
    /\ state.done # "taken"
    /\ rfut' = NoRead
    /\ mres' = MRes(rfut.op, "Dropped", << >>, this_offset)
    /\ issued' = FALSE
    /\ clean' = FALSE
    /\ lpos' = 0
    /\ lres' = LRes("none", << >>)
    /\ UNCHANGED << url, head, opened >>
    /\ UNCHANGED << resource, overflow_checks, file_size, this_offset, state, inflight,
                    lastreq >>
    /\ UNCHANGED << wvars, rvars, fvars >>

RemoteNext ==
    \/ RSeek
    \/ RRead
    \/ RReadExact
    \/ RGetMetadataSize
    \/ RReadDataWithMetadata
    \/ RPoll
    \/ RServerRespond
    \/ RServerFail
    \/ RDropRead
    \/ RServerIgnoresRange


vars == << tensors, sinkMax, sink, wpc, wres, current_offset, data_offsets, metadata_size,
           tampered, rpos, rop, rres, rbuf, rnread, rsize, rmeta, rentry,
           cache, flock, fpos, fpc, fcall, fsize, fmeta, fres, one_thread,
           resource, overflow_checks, file_size, this_offset, state, inflight, issued,
           lastreq, rfut, mres, lpos, lres, clean, url, head, opened >>

\* A writer and a reader on what it wrote; no TensorBuffers is opened.
Init == WriterInit /\ ReaderInit /\ FacadeInit /\ one_thread = FALSE /\ RemoteUnused

Next == WriterNext \/ ReaderNext

Spec == Init /\ [][Next]_vars

\* A TensorBuffers opened on a file write_tensors wrote to a sink that takes
\* every byte, or on a crafted file, with tasks calling its methods.
FacadeTensorLists ==
    UNION { { ts \in TensorLists(k) :
                \A i \in 1..Len(ts) :
                    /\ ts[i].data = << Elem(k, 1) >>
                    /\ ts[i].shape = << W(0, 1), W(0, 2) >> } : k \in FKinds }

\* A file as write_tensors writes it for ts, except that the trailer entries
\* state a data_size one byte short of the tensors' bytes (a crafted trailer:
\* get_tensor_data_by_id takes data_offset and data_size as the entry has them).
CraftedFile(ts) ==
    LET offsets == DataOffsetsFrom(ts, W(0, 4))
        entries == [i \in 1..Len(ts) |->
                      [TensorMetadataOf(ts[i], offsets[i]) EXCEPT
                          !.data_size = W(0, @.lo - 1)]]
        flatbuffer_data == EncodeMetadata([version |-> VERSION, tensors |-> entries,
                                           operations |-> << >>])
    IN  MAGIC_BYTES
            \o Flatten([i \in 1..Len(ts) |-> CastSlice(ts[i].data)])
            \o flatbuffer_data
            \o U32ToLe(AsU32(ByteLen(flatbuffer_data)))
            \o MAGIC_BYTES

InitFacade ==
    /\ tensors \in FacadeTensorLists
    /\ sinkMax = 0
    /\ sink \in { WrittenFile(tensors) }
                   \cup (IF Len(tensors) = 1 THEN { CraftedFile(tensors) } ELSE { })
    /\ wpc = "done"
    /\ wres = "Ok"
    /\ data_offsets = DataOffsetsFrom(tensors, W(0, 4))
    /\ current_offset = W(0, Len(sink) - 8 - ByteLen(FlatbufferData(tensors, data_offsets)).lo)
    /\ metadata_size = AsU32(ByteLen(FlatbufferData(tensors, data_offsets)))
    /\ ReaderInit
    /\ FacadeInit
    /\ one_thread \in BOOLEAN
    /\ RemoteUnused

SpecFacade == InitFacade /\ [][FacadeNext]_vars

\* A client on a RemoteFile opened on a served resource; nothing is written.
InitRemote ==
    /\ tensors = << >>
    /\ sinkMax = 0
    /\ sink = << >>
    /\ wpc = "magic"
    /\ wres = "none"
    /\ current_offset = W(0, 4)
    /\ data_offsets = << >>
    /\ metadata_size = WZero
    /\ ReaderInit
    /\ FacadeInit
    /\ one_thread = FALSE
    /\ RemoteInit

SpecRemote == InitRemote /\ [][RemoteNext]_vars

(* ===================== claims on writer and reader ===================== *)
\* The raw bytes of all tensors, in input order.
AllDataBytes == Flatten([i \in 1..Len(tensors) |-> CastSlice(tensors[i].data)])

RECURSIVE BytesBefore(_)
\* The total byte length of the tensors before the i-th.
BytesBefore(i) ==
    IF i <= 1 THEN WZero
    ELSE WAdd(BytesBefore(i - 1), ByteLen(CastSlice(tensors[i - 1].data)))

DistinctNames ==
    \A i, j \in 1..Len(tensors) : i # j => tensors[i].name # tensors[j].name

\* The sink took every byte of every write call and nobody altered the file.
Intact == Written /\ sinkMax = 0 /\ ~tampered

\* A decoded entry states tensor t: same id, name, element kind and shape.
SameTensor(e, t) ==
    /\ e.id = t.id
    /\ e.name = t.name
    /\ e.data_type = t.data_type
    /\ e.shape = t.shape

\* C1. Round trip: tensors with pairwise distinct names, written to an empty
\* sink and read back with the reader (read_metadata into a buffer of exactly
\* metadata_size bytes, decode, read_data_with_metadata into a buffer of exactly
\* data_size bytes), come back with the same id, name, shape, element kind and
\* raw bytes.
C1_RoundTrip ==
    (Intact /\ DistinctNames) =>
        /\ (rop = "read_metadata" /\ W(0, Len(rbuf)) = rsize) =>
              /\ rres = "Ok"
              /\ DecodeMetadata(rbuf).ok
              /\ Len(DecodeMetadata(rbuf).tensors) = Len(tensors)
              /\ \A i \in 1..Len(tensors) :
                    SameTensor(DecodeMetadata(rbuf).tensors[i], tensors[i])
        /\ (rop = "read_data" /\ W(0, Len(rbuf)) = rmeta.tensors[rentry].data_size) =>
              /\ rres = "Ok"
              /\ rbuf = CastSlice(tensors[rentry].data)

\* C2. File layout: whenever write_tensors returns Ok, on every sink of the
\* sequential-write contract, the sink holds the magic, each tensor's raw bytes
\* in input order, the encoded trailer, the trailer's length as a little-endian
\* u32, and the magic; the trailer lies at [length - metadata_size - 8, length - 8).
C2_FileLayout ==
    (Written /\ ~tampered) =>
        LET trailer == FlatbufferData(tensors, data_offsets)
            n == ByteLen(trailer)
        IN  /\ sink = MAGIC_BYTES \o AllDataBytes \o trailer \o U32ToLe(n) \o MAGIC_BYTES
            /\ BytesAt(sink, WSub(ByteLen(sink), WAddInt(n, 8)), n.lo) = trailer

\* C3. Offset bookkeeping: the i-th entry of the written trailer records as
\* data_offset the file position where the tensor's bytes begin (4 plus the
\* byte lengths of all earlier tensors) and as data_size the tensor's byte
\* length; no entry records offset 0.
C3_OffsetBookkeeping ==
    (wpc \in { "size", "tail", "flush" } \/ Written) =>
        LET table == DecodeMetadata(FlatbufferData(tensors, data_offsets)).tensors
        IN  \A i \in 1..Len(tensors) :
               /\ table[i].data_offset = WAdd(W(0, 4), BytesBefore(i))
               /\ table[i].data_size = ByteLen(CastSlice(tensors[i].data))
               /\ table[i].data_offset # WZero

\* The sentinels of the file as it is.
LeadingMagicOk == BytesAt(sink, WZero, 4) = MAGIC_BYTES
TrailingMagicOk == BytesAt(sink, WSub(ByteLen(sink), W(0, 4)), 4) = MAGIC_BYTES

\* The metadata size the file's last 8 bytes encode, and the trailer's place.
FileMetadataSize == U32FromLe(BytesAt(sink, WSub(ByteLen(sink), W(0, 8)), 4))
TrailerStart == WSub(ByteLen(sink), WAddInt(FileMetadataSize, 8))

\* C4. read_metadata, given a buffer of exactly metadata_size bytes, returns the
\* invalid-magic error for every file whose first 4 bytes differ from the magic
\* and for every file whose last 4 bytes differ from it; it returns the trailer
\* only when both sentinels are the magic.
C4_SentinelsChecked ==
    (Written /\ sinkMax = 0 /\ rop = "read_metadata"
        /\ W(0, Len(rbuf)) = FileMetadataSize) =>
        /\ ~LeadingMagicOk => rres = "InvalidMagic"
        /\ ~TrailingMagicOk => rres = "InvalidMagic"
        /\ rres = "Ok" => (LeadingMagicOk /\ TrailingMagicOk)

\* C5. read_metadata on a file with a valid leading magic and a buffer of at
\* least metadata_size bytes succeeds and reads exactly metadata_size bytes,
\* the file's bytes [length - metadata_size - 8, length - 8), into the start of
\* the buffer; with a shorter buffer it fails with the sizing error.
C5_ReadsExactlyTrailer ==
    (Written /\ sinkMax = 0 /\ rop = "read_metadata" /\ LeadingMagicOk) =>
        /\ WLe(FileMetadataSize, W(0, Len(rbuf))) =>
              /\ rres = "Ok"
              /\ W(0, rnread) = FileMetadataSize
              /\ Take(rbuf, FileMetadataSize.lo)
                    = BytesAt(sink, TrailerStart, FileMetadataSize.lo)
        /\ WLt(W(0, Len(rbuf)), FileMetadataSize) => rres = "BufferTooSmall"

\* The entry read_data_with_metadata was last called with.
ReadEntry == rmeta.tensors[rentry]
EntryInFile(e) == WLe(WAdd(e.data_offset, e.data_size), ByteLen(sink))

\* C6. read_data_with_metadata, for an entry whose range lies in the file and a
\* buffer of at least data_size bytes, succeeds and reads exactly data_size
\* bytes, the file's bytes [data_offset, data_offset + data_size), into the
\* start of the buffer; with a shorter buffer it fails with the sizing error.
C6_ReadsExactlyData ==
    (rop = "read_data" /\ EntryInFile(ReadEntry)) =>
        /\ WLe(ReadEntry.data_size, W(0, Len(rbuf))) =>
              /\ rres = "Ok"
              /\ W(0, rnread) = ReadEntry.data_size
              /\ Take(rbuf, ReadEntry.data_size.lo)
                    = BytesAt(sink, ReadEntry.data_offset, ReadEntry.data_size.lo)
        /\ WLt(W(0, Len(rbuf)), ReadEntry.data_size) => rres = "BufferTooSmall"

(* ========================= claims on TensorBuffers ===================== *)
\* The trailer of the written file, decoded.
WrittenRoot == DecodeMetadata(FlatbufferData(tensors, data_offsets))

\* The task's call is past get_metadata_root.
PastRoot(t) == fpc[t] \in { "data_lock", "data_io", "done" }
\* The errors get_metadata_root ends with when loading the trailer fails.
LoadErrors == { "Io", "InvalidMagic", "BufferTooSmall", "Decode" }

\* C7. On a TensorBuffers opened on a well-formed file, the first call that
\* needs the trailer, made with no other call under way, loads it: once the
\* call is past get_metadata_root the cache holds the decoded trailer of the
\* file and the call has not failed with an error of the loading.
C7_FirstAccessLoads ==
    \A t \in FTasks :
        (/\ sink = WrittenFile(tensors)
         /\ PastRoot(t) /\ \A u \in FTasks \ { t } : fpc[u] = "idle") =>
            /\ cache = WrittenRoot
            /\ fres[t].err \notin LoadErrors

\* C9. When all tasks' calls are past get_metadata_root, the cache holds the
\* decoded trailer of the file and no call has failed with an error of the
\* loading or with the error of a lost set.
C9_ConcurrentFirstAccess ==
    (sink = WrittenFile(tensors) /\ \A t \in FTasks : PastRoot(t)) =>
        /\ cache = WrittenRoot
        /\ \A t \in FTasks : fres[t].err \notin LoadErrors \cup { "SetFailed" }

DistinctIds ==
    \A i, j \in 1..Len(tensors) : i # j => tensors[i].id # tensors[j].id

\* C10. For a file written from tensors with pairwise distinct ids in any
\* order, the keyed lookup get_tensor_metadata makes in the file's tensor table
\* finds, for each written id, the entry with that id, and a finished
\* get_tensor_metadata(id) call for a written id returned that entry.
C10_LookupFindsWritten ==
    DistinctIds =>
        /\ \A i \in 1..Len(tensors) :
              LET j == LookupByKey(WrittenRoot.tensors, tensors[i].id)
              IN  j # 0 /\ WrittenRoot.tensors[j].id = tensors[i].id
        /\ \A t \in FTasks :
              (/\ fpc[t] = "done"
               /\ fcall[t].op = "get_tensor_metadata"
               /\ \E i \in 1..Len(tensors) : tensors[i].id = fcall[t].id) =>
                  /\ fres[t].st = "Ok"
                  /\ fres[t].meta.id = fcall[t].id

\* The task's call fetches tensor data and has returned.
DataCallDone(t) ==
    /\ fpc[t] = "done"
    /\ fcall[t].op \in { "get_tensor_data_by_id", "get_tensor_data_by_name" }
\* The written tensors with the id the task's call asks for.
Asked(t) == { i \in 1..Len(tensors) : tensors[i].id = fcall[t].id }

\* C11. get_tensor_data_by_name(name) and get_tensor_data_by_id(hash_key(name))
\* for the same T return the same result, and a finished data call for an id
\* that no written tensor has ended with the not-found error.
C11_ByNameIsById ==
    /\ \A t, u \in FTasks :
          (/\ DataCallDone(t) /\ DataCallDone(u)
           /\ fcall[t].op # fcall[u].op
           /\ fcall[t].id = fcall[u].id /\ fcall[t].T = fcall[u].T) =>
              fres[t] = fres[u]
    /\ \A t \in FTasks :
          (DataCallDone(t) /\ Asked(t) = { }) => fres[t].err = "NotFound"

\* C12. A finished get_tensor_data_by_id::<T> for a written tensor ended with
\* the type-mismatch error when T's kind differs from the stored kind, and
\* otherwise returned the tensor's original bytes, shape and id.
C12_TypeSafety ==
    \A t \in FTasks :
        (DataCallDone(t) /\ DistinctIds /\ sink = WrittenFile(tensors)) =>
            \A i \in Asked(t) :
                IF fcall[t].T # tensors[i].data_type
                THEN fres[t].err = "TypeMismatch"
                ELSE /\ fres[t].st = "Ok"
                     /\ fres[t].data = CastSlice(tensors[i].data)
                     /\ fres[t].meta.shape = tensors[i].shape
                     /\ fres[t].meta.id = tensors[i].id

(* ========================= claims on RemoteFile ======================== *)
\* The client's last call has returned.
CallDone == rfut.kind = "none" /\ mres.op # "none"
\* What the client's read has put into its buffer so far.
Delivered == IF rfut.kind # "none" THEN rfut.got ELSE mres.bytes

C14_RemoteEquivalence ==
    (clean /\ CallDone /\ ~this_offset.top) =>
        /\ mres.st = lres.st
        /\ mres.bytes = lres.bytes
        /\ this_offset = U(lpos)

\* C15. Every range request a read issues covers at least one byte, starts at
\* the cursor, lies inside [0, file_size) and leaves the source in the pending
\* state with exactly that request in flight.
C15_ReadFromIdle ==
    issued =>
        /\ InResource(resource, lastreq)
        /\ lastreq.first = this_offset
        /\ lastreq.last.v - lastreq.first.v + 1 <= rfut.cap
        /\ state = Fetch(lastreq, "pending", << >>)
        /\ inflight = 1

\* C17. A poll that finds the fetch pending leaves the cursor alone; a poll that
\* finds it completed with n bytes appends those n bytes to the caller's
\* buffer, advances the cursor by n and makes the state Idle, in one step.
C17_CursorOnCompletion ==
    [][(rfut.kind # "none" /\ state.tag = "Fetch") =>
          /\ (state.done = "pending" /\ rfut'.kind # "none") => this_offset' = this_offset
          /\ (state.done = "ok" /\ state' # state) =>
                /\ state' = Idle
                /\ this_offset' = WrappingAdd(this_offset, Len(state.bytes))
                /\ IF rfut'.kind # "none" THEN rfut'.got = rfut.got \o state.bytes
                   ELSE mres'.bytes = rfut.got \o state.bytes]_vars

\* C18. After the client dropped a read whose fetch was pending the source is
\* Idle and nothing is in flight.
C18_DropAborts ==
    mres.st = "Dropped" => (state = Idle /\ inflight = 0)

\* C16: at most one range fetch is in flight in every reachable state; a request
\* is issued only by a step that starts in Idle, and it is then the one fetch in
\* flight; a step that starts with a fetch in the state (a read polling it, the
\* server answering it) issues no request and keeps that same fetch.
C16_SingleFlight ==
    /\ [](/\ inflight <= 1
          /\ inflight = 1 => (state.tag = "Fetch" /\ state.done = "pending"))
    /\ [][/\ issued' =>
                /\ PollBranch(state) = "Idle"
                /\ inflight = 0 /\ inflight' = 1
                /\ state' = Fetch(lastreq', "pending", << >>)
          /\ state.tag = "Fetch" =>
                /\ ~issued'
                /\ inflight' <= inflight
                /\ state'.tag = "Fetch" => state'.range = state.range]_vars
\* A read waits on the pending fetch that an earlier, dropped read started at
\* another cursor.
C16_Witness ==
    /\ rfut.kind # "none"
    /\ mres.st = "Pending"
    /\ state.tag = "Fetch" /\ state.done = "pending"
    /\ inflight = 1
    /\ state.range.first # this_offset

\* C19: a seek on the RemoteFile issues no request and leaves file_size, the
\* Idle/Fetch state and the fetch in flight as they were; it returns at once,
\* never suspended; Start(p) always succeeds; a seek that succeeds returns the
\* new cursor, which is p for Start(p), file_size + d for End(d) and
\* cursor + d for Current(d).
C19_SeekOnlyCursor ==
    [][\A position \in SeekChoices :
          Call("seek", position, "none", 0) =>
             LET target == CASE position.whence = "Start" -> position.pos
                             [] position.whence = "End" -> WrappingAdd(file_size, position.d)
                             [] OTHER -> WrappingAdd(this_offset, position.d)
             IN  /\ ~issued' /\ inflight' = inflight /\ lastreq' = lastreq
                 /\ state' = state
                 /\ file_size' = file_size
                 /\ rfut' = NoRead
                 /\ mres'.st \in { "Ok", "InvalidInput" }
                 /\ position.whence = "Start" => mres'.st = "Ok"
                 /\ mres'.st = "Ok" => (this_offset' = target /\ mres'.pos = target)]_vars
\* A seek from the end has succeeded while a fetch started at another cursor
\* is still pending in the state.
C19_Witness ==
    /\ mres.op = "seek" /\ mres.st = "Ok"
    /\ mres.pos = this_offset
    /\ this_offset = U(Len(resource) - 1)
    /\ state.tag = "Fetch" /\ state.done = "pending" /\ inflight = 1
    /\ state.range.first = U(0)

\* C20: a seek End(d) or Current(d) on the RemoteFile whose result would be
\* negative or above 2^64 - 1 fails with InvalidInput and leaves the cursor
\* where it was, and any other such seek succeeds; get_metadata_size on a
\* resource shorter than 8 bytes fails with InvalidInput at its seek End(-8):
\* no read is started, no request is issued, cursor and state are unchanged.
C20_SeekOverflow ==
    [][/\ \A position \in SeekChoices :
             (position.whence # "Start" /\ Call("seek", position, "none", 0)) =>
                LET base == IF position.whence = "End" THEN file_size ELSE this_offset
                    sum == base.v + position.d
                    out == IF base.top THEN sum >= 0 ELSE sum < 0
                IN  /\ out => (mres'.st = "InvalidInput" /\ this_offset' = this_offset)
                    /\ ~out => mres'.st = "Ok"
       /\ (Len(resource) < 8 /\ Call("get_metadata_size", SeekFromEnd(-8), "read_exact", 4)) =>
             /\ mres'.st = "InvalidInput"
             /\ this_offset' = this_offset
             /\ rfut' = NoRead
             /\ ~issued' /\ inflight' = inflight /\ state' = state]_vars
\* get_metadata_size has failed on a resource shorter than 8 bytes with the
\* cursor left where an earlier seek put it.
C20_Witness ==
    /\ Len(resource) < 8
    /\ mres.op = "get_metadata_size" /\ mres.st = "InvalidInput"
    /\ this_offset = U(Len(resource) + 1)
    /\ rfut = NoRead /\ inflight = 0

\* C27: a read whose fetch ended with an error returns that error with the
\* cursor unchanged, and the RemoteFile is then Idle, so that the next read
\* issues a fresh request.
C27_FailedFetchReusable ==
    (rfut.kind = "none" /\ mres.st = "Transport") =>
        /\ state = Idle
        /\ this_offset = mres.pos

\* C28: the bytes a poll delivers to a read are the resource's bytes from the
\* cursor the RemoteFile has when it delivers them, whatever reads, seeks and
\* dropped reads came before.
C28_DeliveredMatchCursor ==
    [][(rfut.kind # "none" /\ state.tag = "Fetch" /\ state.done = "ok" /\ state' = Idle) =>
          /\ ~this_offset.top
          /\ \A k \in 1..Len(state.bytes) :
                /\ this_offset.v + k <= Len(resource)
                /\ state.bytes[k] = resource[this_offset.v + k]]_vars

\* C30: a read polled on an Idle RemoteFile whose cursor is beyond file_size
\* completes with no bytes, issues no request and leaves cursor and state as
\* they were (file_size - cursor does not underflow).
C30_ReadPastEnd ==
    [][(/\ rfut.kind # "none"
        /\ state = Idle
        /\ ~ULe(this_offset, file_size)
        /\ (rfut' # rfut \/ state' # state)) =>
          /\ ~issued'
          /\ state' = Idle
          /\ this_offset' = this_offset
          /\ mres'.st \in { "Ok", "Eof" }
          /\ mres'.bytes = rfut.got]_vars

\* C29: the bytes poll_read copies into the caller's buffer on the completion
\* of a fetch never exceed the buffer's unfilled space, for a buffer that is
\* partly filled and for a response longer than the range asked for.
C29_NoOverfill ==
    [][(rfut.kind # "none" /\ state.tag = "Fetch" /\ state.done = "ok" /\ state' # state) =>
          /\ Len(state.bytes) <= rfut.cap - Len(rfut.got)
          /\ mres'.st # "Panic"]_vars

\* C24: open takes the Local branch for a string that starts with file://,
\* opening the path that is the rest of the string and sending no request; it
\* takes the Remote branch for a string that starts with https://, opening no
\* file; for every other string it fails with InvalidInput, having opened no
\* file and sent no request.
C24_ResourceAddressing ==
    LET isFile == Len(url) >= 7 /\ SubSeq(url, 1, 7) = << "f", "i", "l", "e", ":", "/", "/" >>
        isHttps == Len(url) >= 8
                   /\ SubSeq(url, 1, 8) = << "h", "t", "t", "p", "s", ":", "/", "/" >>
    IN  /\ isFile =>
              /\ opened.variant \in { "Local", "none" }
              /\ opened.variant = "Local" <=> SubSeq(url, 8, Len(url)) \in LocalPaths
              /\ opened.path = SubSeq(url, 8, Len(url))
              /\ opened.opens = 1 /\ opened.heads = 0
        /\ isHttps =>
              /\ opened.variant \in { "Remote", "none" }
              /\ opened.variant = "Remote" <=> FetchFileSize(head).ok
              /\ opened.opens = 0 /\ opened.heads = 1
        /\ (~isFile /\ ~isHttps) =>
              /\ opened.variant = "none" /\ opened.err = "InvalidInput"
              /\ opened.opens = 0 /\ opened.heads = 0
              /\ mres.op = "none" /\ inflight = 0 /\ ~issued
\* open has refused a string with the http scheme.
C24_Witness ==
    /\ url = << "h", "t", "t", "p", ":", "/", "/", "h" >>
    /\ opened.variant = "none"
    /\ opened.err = "InvalidInput"

\* C25: RemoteFile::open sends one HEAD request and succeeds exactly when the
\* request was answered with a success status and a Content-Length header that
\* is an unsigned decimal number; the RemoteFile then starts Idle at cursor 0
\* with that number as file_size, which no later read or seek changes; in every
\* other case open fails with an error and there is no RemoteFile to call.
C25_SizeDiscovery ==
    /\ [](LET isHttps == StartsWith(url, HttpsScheme)
              digits == IF head.value # << >> /\ head.value[1] = "+"
                        THEN SubSeq(head.value, 2, Len(head.value)) ELSE head.value
              isNumber == /\ digits # << >>
                          /\ \A i \in 1..Len(digits) :
                                \E d \in 1..10 : digits[i] = DigitChars[d]
              good == head.sent /\ head.success /\ head.present /\ isNumber
          IN  isHttps =>
                 /\ opened.heads = 1
                 /\ good => /\ opened.variant = "Remote"
                            /\ file_size = U(Len(resource))
                            /\ mres.op = "none" =>
                                  (this_offset = U(0) /\ state = Idle /\ inflight = 0)
                 /\ ~good => /\ opened.variant = "none" /\ opened.err # ""
                             /\ mres.op = "none" /\ rfut = NoRead /\ state = Idle)
    /\ [][file_size' = file_size]_vars
\* A RemoteFile opened on a Content-Length of "+<n>" has completed a read and
\* a seek, and file_size is still n.
C25_Witness ==
    /\ opened.variant = "Remote"
    /\ head.value[1] = "+"
    /\ mres.op = "seek" /\ mres.st = "Ok"
    /\ this_offset = U(Len(resource) + 1)
    /\ file_size = U(Len(resource))

\* C22: when a write to the sink (or the flush) fails, write_tensors returns
\* the error in that same step, with the bytes written before left in the sink
\* as they are, and from then on it writes and flushes nothing more.
C22_WriterAborts ==
    /\ [](wres = "Err" => wpc = "done")
    /\ [][/\ (wres # "Err" /\ wres' = "Err") => (wres = "none" /\ sink' = sink)
          /\ wres = "Err" => (sink' = sink /\ wpc' = wpc /\ wres' = wres)]_vars
\* write_tensors has failed at the write of the second tensor's bytes, with
\* the leading magic and the first tensor's bytes in the sink.
C22_Witness ==
    /\ wres = "Err"
    /\ Len(tensors) = 2
    /\ Len(data_offsets) = 1
    /\ sink = MAGIC_BYTES \o CastSlice(tensors[1].data)

\* TensorOperation::new; the kinds are named as the Operation enumeration
\* names them.
TensorOperationNew(id, operation, input_operations, output) ==
    [id |-> id, operation |-> operation, input_operations |-> input_operations,
     output |-> output]
\* The operations a caller hands to the writer along with its tensors:
\* (1, None, [], id of "1") and (2, Add, [1], id of "2").
TestOperations ==
    << TensorOperationNew(1, "None", << >>, hash_key(<< 49 >>)),
       TensorOperationNew(2, "Add", << 1 >>, hash_key(<< 50 >>)) >>

\* C23: the trailer decoded from a file written from tensors together with a
\* list of operations has one tensor entry per tensor and one operation entry
\* per operation, in input order, each with the operation's id, kind, input
\* operation ids and output tensor id.
C23_OperationsPersisted ==
    (Intact /\ rmeta.ok) =>
        /\ Len(rmeta.tensors) = Len(tensors)
        /\ Len(rmeta.operations) = Len(TestOperations)
        /\ \A i \in 1..Len(TestOperations) : rmeta.operations[i] = TestOperations[i]

(* ===================== claims on the facade, continued ================= *)
\* C21: two calls on one TensorBuffers serialize at the reader's lock without
\* one of them blocking its thread for good: when all calls are polled on one
\* thread, no call is ever inside Mutex::lock (or has panicked in it) while
\* another call, suspended on its read, holds the guard; the holder could not
\* be polled again to drop the guard and neither call would complete.
C21_ConcurrentFetchesComplete ==
    one_thread =>
        \A t \in FTasks : fpc[t] \notin { "size_wait", "meta_wait", "data_wait", "panicked" }

\* C26: a finished get_tensor_data_by_id::<T> for an entry of T's kind whose
\* data_size is not a multiple of size_of(T) ended with the size error, and
\* the size error never comes out of the statement that reads the bytes.
C26_ChecksPrecedeRead ==
    /\ [](\A t \in FTasks :
             DataCallDone(t) =>
                LET root == DecodeMetadata(SubSeq(sink, Len(sink) - 7 - metadata_size.lo,
                                                  Len(sink) - 8))
                    i == LookupByKey(root.tensors, fcall[t].id)
                IN  (/\ i # 0
                     /\ root.tensors[i].data_type = fcall[t].T
                     /\ root.tensors[i].data_size.lo % SizeOf(fcall[t].T) # 0) =>
                        fres[t].err = "SizeNotMultiple")
    /\ [][\A t \in FTasks :
             (fres'[t].err = "SizeNotMultiple" /\ fres[t].err # "SizeNotMultiple") =>
                fpc[t] \notin { "data_lock", "data_wait", "data_io" }]_vars

(* ===================== claims on the writer, continued ================= *)
\* C31: after a write_tensors that returned Ok, every trailer entry records the
\* tensor's true shape dimensions, true byte length and true file position
\* (4 plus the byte lengths of the earlier tensors), and the metadata_size
\* written is the true length of the trailer: no recorded value is the true
\* value reduced modulo 2^32.
C31_NoSilentNarrowing ==
    Written =>
        LET flatbuffer_data == FlatbufferData(tensors, data_offsets)
            table == DecodeMetadata(flatbuffer_data).tensors
        IN  /\ metadata_size = ByteLen(flatbuffer_data)
            /\ \A i \in 1..Len(tensors) :
                   /\ table[i].shape = tensors[i].shape
                   /\ table[i].data_size = ByteLen(CastSlice(tensors[i].data))
                   /\ table[i].data_offset = WAdd(W(0, 4), BytesBefore(i))

====
